---- MODULE Spec2Model ----
(***************************************************************************)
(* Crystal-graph construction of jarvisdgl/data.py: canonize_edge,         *)
(* nearest_neighbor_edges (k-nearest shells with adaptive cutoff),         *)
(* voronoi_edges, build_undirected_edgedata and dgl_multigraph.            *)
(*                                                                         *)
(* Arithmetic is exact.  A lattice is an integer 3x3 matrix (rows are the  *)
(* basis vectors, lengths in half units: 4 stands for 2.0, 5 for 2.5).     *)
(* A fractional coordinate is a numerator triple over the structure's      *)
(* denominator `den`; cartesian vectors are therefore scaled by `den`.     *)
(* Distances and cutoffs are kept squared, so that max(a, b, c), 2*cutoff  *)
(* and distance comparisons stay integer.                                  *)
(***************************************************************************)
EXTENDS Integers, Sequences, FiniteSets, TLC

(* ------------------------------ vectors ------------------------------ *)

Zero3 == <<0, 0, 0>>

VAdd(a, b) == <<a[1] + b[1], a[2] + b[2], a[3] + b[3]>>

VSub(a, b) == <<a[1] - b[1], a[2] - b[2], a[3] - b[3]>>

VNeg(a) == <<0 - a[1], 0 - a[2], 0 - a[3]>>

VScale(n, a) == <<n * a[1], n * a[2], n * a[3]>>

Dot(a, b) == a[1] * b[1] + a[2] * b[2] + a[3] * b[3]

Cross(a, b) ==
    <<a[2] * b[3] - a[3] * b[2], a[3] * b[1] - a[1] * b[3], a[1] * b[2] - a[2] * b[1]>>

Norm2(a) == Dot(a, a)

Max2(x, y) == IF x >= y THEN x ELSE y

SetMin(S) == CHOOSE x \in S : \A y \in S : x <= y

\* Op applied to the value of e, e being evaluated once
With(e, Op(_)) == CHOOSE y \in {Op(x) : x \in {e}} : TRUE

(* ------------------------- structures (inputs) ----------------------- *)

\* lattice.get_cartesian_coords(frac): row vector times the lattice matrix
get_cartesian_coords(m, f) ==
    <<f[1] * m[1][1] + f[2] * m[2][1] + f[3] * m[3][1],
      f[1] * m[1][2] + f[2] * m[2][2] + f[3] * m[3][2],
      f[1] * m[1][3] + f[2] * m[2][3] + f[3] * m[3][3]>>

\* simple cubic, edge 2.0, one site at (0,0,0)
SimpleCubic ==
    [name |-> "sc", matrix |-> <<<<4, 0, 0>>, <<0, 4, 0>>, <<0, 0, 4>>>>, den |-> 4,
     frac_coords |-> <<Zero3>>, species |-> <<"Po">>]

\* CsCl-like: cubic, edge 2.0, sites at (0,0,0) and (1/2,1/2,1/2)
BodyCentred ==
    [name |-> "cscl", matrix |-> <<<<4, 0, 0>>, <<0, 4, 0>>, <<0, 0, 4>>>>, den |-> 4,
     frac_coords |-> <<Zero3, <<2, 2, 2>>>>, species |-> <<"Cs", "Cl">>]

\* orthorhombic 4.0 x 2.0 x 3.0 with three sites at unequal spacings:
\* site 1 is the nearest neighbour of site 0, but site 1's nearest is site 2
Chain ==
    [name |-> "chain", matrix |-> <<<<8, 0, 0>>, <<0, 4, 0>>, <<0, 0, 6>>>>, den |-> 4,
     frac_coords |-> <<Zero3, <<1, 0, 0>>, <<1, 1, 0>>>>, species |-> <<"Fe", "O", "O">>]

\* non-orthogonal cell, two sites
Skew ==
    [name |-> "skew", matrix |-> <<<<4, 0, 0>>, <<2, 4, 0>>, <<0, 0, 6>>>>, den |-> 4,
     frac_coords |-> <<Zero3, <<2, 1, 0>>>>, species |-> <<"Zn", "S">>]

Structures == {SimpleCubic, BodyCentred, Chain, Skew}

\* len(structure); site ids are 0-based as in the source
NumSites(s) == Len(s.frac_coords)

SiteIds(s) == 0 .. (NumSites(s) - 1)

FracCoords(s, i) == s.frac_coords[i + 1]

\* max(lat.a, lat.b, lat.c), squared
MaxCellSq(s) ==
    Max2(Norm2(s.matrix[1]), Max2(Norm2(s.matrix[2]), Norm2(s.matrix[3])))

(* ---------------------------- canonize_edge --------------------------- *)

\* "if dst_id > src_id" instead of "if dst_id < src_id"
SortIdsWrongTest(e) ==
    IF e.dst_id > e.src_id
    THEN [src_id |-> e.dst_id, dst_id |-> e.src_id,
          src_image |-> e.dst_image, dst_image |-> e.src_image]
    ELSE e

\* store directed edges src_id <= dst_id: ids and images are swapped together
SortIds(e) ==
    IF e.dst_id < e.src_id
    THEN [src_id |-> e.dst_id, dst_id |-> e.src_id,
          src_image |-> e.dst_image, dst_image |-> e.src_image]
    ELSE e

\* shift periodic images so that src is in the (0,0,0) image
ShiftImages(e) ==
    IF e.src_image # Zero3
    THEN LET shift == e.src_image
         IN [e EXCEPT !.src_image = VSub(e.src_image, shift),
                      !.dst_image = VSub(e.dst_image, shift)]
    ELSE e

\* the value canonize_edge returns when its assertion holds
canonize_edge(src_id, dst_id, src_image, dst_image) ==
    ShiftImages(SortIds([src_id |-> src_id, dst_id |-> dst_id,
                         src_image |-> src_image, dst_image |-> dst_image]))

\* assert src_image == (0, 0, 0)
AssertHolds(e) == e.src_image = Zero3

(* ------------------- structure.get_all_neighbors(r) ------------------ *)

\* least n >= 0 with n^2 * den >= num  (ceiling of sqrt(num / den))
CeilSqrtRatio(num, den) ==
    CHOOSE n \in 0 .. num :
        /\ n * n * den >= num
        /\ (n = 0 \/ (n - 1) * (n - 1) * den < num)

\* number of periodic images needed along each axis to cover a sphere of
\* squared radius c2 around any site: r / (cell height) rounded up, plus one
\* because fractional coordinates of two sites differ by less than one
ImageRange(s, c2) ==
    LET m == s.matrix
        vol == Dot(m[1], Cross(m[2], m[3]))
        n(a, b) == CeilSqrtRatio(c2 * Norm2(Cross(a, b)), vol * vol) + 1
    IN <<n(m[2], m[3]), n(m[3], m[1]), n(m[1], m[2])>>

\* squared cartesian distance (scaled by den^2) from site i to image n of site j
Dist2(s, i, j, n) ==
    With(VSub(VAdd(FracCoords(s, j), VScale(s.den, n)), FracCoords(s, i)),
         LAMBDA frac : With(get_cartesian_coords(s.matrix, frac), LAMBDA d : Norm2(d)))

\* all periodic neighbours of site i within the cutoff, the site itself
\* (distance zero) excluded
NeighborsOf(s, c2, i) ==
    With(ImageRange(s, c2),
         LAMBDA rng :
             {x \in {[nn_distance2 |-> Dist2(s, i, p[1], p[2]), index |-> p[1],
                      image |-> p[2]] :
                         p \in SiteIds(s) \X (((0 - rng[1]) .. rng[1])
                                                  \X ((0 - rng[2]) .. rng[2])
                                                  \X ((0 - rng[3]) .. rng[3]))} :
                 x.nn_distance2 > 0 /\ x.nn_distance2 <= c2 * s.den * s.den})

\* structure.get_all_neighbors(cutoff): one neighbour list per site
get_all_neighbors(s, c2) == [i \in SiteIds(s) |-> NeighborsOf(s, c2, i)]

(* ----------------------- nearest_neighbor_edges ---------------------- *)

\* lexicographic order on integer tuples of one length
LexBefore(a, b) ==
    \E i \in 1 .. Len(a) : a[i] < b[i] /\ \A j \in 1 .. (i - 1) : a[j] = b[j]

\* the values of a set of <<key, value>> pairs (keys distinct) as a sequence
\* in ascending key order
SeqByKey(K) ==
    With({<<p[2], Cardinality({q \in K : LexBefore(q[1], p[1])})>> : p \in K},
         LAMBDA ranked :
             [n \in 1 .. Cardinality(K) |-> (CHOOSE x \in ranked : x[2] = n - 1)[1]])

\* the elements of a finite set of integer tuples in a fixed order (the
\* iteration order of a Python set is arbitrary but fixed)
SeqOfSet(S) == SeqByKey({<<x, x>> : x \in S})

\* sorted(neighborlist, key=lambda x: x[1]): ascending distance; the order
\* among neighbours at equal distance is that of the neighbour list, which
\* is fixed here as ascending (index, image)
sorted(S) ==
    SeqByKey({<<<<x.nn_distance2, x.index, x.image[1], x.image[2], x.image[3]>>, x>> :
                 x \in S})

\* min(len(neighborlist) for neighborlist in all_neighbors)
MinNbrs(all) == SetMin({Cardinality(all[i]) : i \in DOMAIN all})

\* "if min_nbrs <= max_neighbors"
TooFewOffByOne(all, max_neighbors) == MinNbrs(all) <= max_neighbors

\* if min_nbrs < max_neighbors: the cutoff radius must be extended
TooFewNeighbors(all, max_neighbors) == MinNbrs(all) < max_neighbors

\* the new radius is always twice the old one
RCutAlwaysDouble(s, c2) == 4 * c2

\* the new radius is the old one
RCutSame(s, c2) == c2

\* r_cut: the cell size on the first iteration, 2 * cutoff afterwards
\* (squared: 4 * cutoff^2)
RCut(s, c2) == IF c2 < MaxCellSq(s) THEN MaxCellSq(s) ELSE 4 * c2

\* distances[max_neighbors] where distances[max_neighbors - 1] is meant
MaxDistNextNeighbor(nbrs, max_neighbors) ==
    IF max_neighbors + 1 <= Len(nbrs) THEN nbrs[max_neighbors + 1].nn_distance2
    ELSE nbrs[max_neighbors].nn_distance2

\* distances[-1]: the farthest candidate
MaxDistLast(nbrs, max_neighbors) == nbrs[Len(nbrs)].nn_distance2

\* max_dist = distances[max_neighbors - 1] (0-based) of the sorted list
MaxDist(nbrs, max_neighbors) == nbrs[max_neighbors].nn_distance2

\* "distances < max_dist"
KeepShellStrict(nbrs, max_dist) ==
    SelectSeq(nbrs, LAMBDA x : x.nn_distance2 < max_dist)

\* ids[distances <= max_dist], images[distances <= max_dist]
KeepShell(nbrs, max_dist) ==
    SelectSeq(nbrs, LAMBDA x : x.nn_distance2 <= max_dist)

\* the neighbours of one site that are turned into edges
KeptNeighbors(neighborlist, max_neighbors) ==
    With(sorted(neighborlist),
         LAMBDA nbrs :
             With(MaxDist(nbrs, max_neighbors),
                  LAMBDA max_dist : KeepShell(nbrs, max_dist)))

\* edges[(src_id, dst_id)].add(dst_image) on a defaultdict(set); the mapping
\* is a sequence of [key, images] entries in order of first insertion
EdgesAdd(edges, key, image) ==
    LET at == {p \in 1 .. Len(edges) : edges[p].key = key}
    IN IF at = {} THEN Append(edges, [key |-> key, images |-> {image}])
       ELSE LET p == CHOOSE q \in at : TRUE
            IN [edges EXCEPT ![p].images = @ \cup {image}]

RECURSIVE InsertRange(_, _, _, _, _)
\* the iterations lo .. hi of the loop below, in order (the range is halved
\* so that the iterations nest only logarithmically deep)
InsertRange(edges, site_idx, nbrs, lo, hi) ==
    IF lo > hi THEN edges
    ELSE IF lo = hi
    THEN With(canonize_edge(site_idx, nbrs[lo].index, Zero3, nbrs[lo].image),
              LAMBDA e : EdgesAdd(edges, <<e.src_id, e.dst_id>>, e.dst_image))
    ELSE With(InsertRange(edges, site_idx, nbrs, lo, (lo + hi) \div 2),
              LAMBDA added :
                  InsertRange(added, site_idx, nbrs, (lo + hi) \div 2 + 1, hi))

\* for dst, image in zip(ids, images): canonize_edge(...); edges[...].add(...)
InsertNeighbors(edges, site_idx, nbrs) == InsertRange(edges, site_idx, nbrs, 1, Len(nbrs))

\* the mapping as a set of (key, image) pairs
EdgeSet(edges) ==
    UNION {{<<edges[p].key, img>> : img \in edges[p].images} : p \in 1 .. Len(edges)}

(* ------------------------------ bounds -------------------------------- *)

\* largest max_neighbors tried
MaxK == 7

\* deepest recursion of nearest_neighbor_edges explored
MaxRetries == 4

\* largest site id and largest image component given to canonize_edge alone
MaxSiteId == 2

MaxImage == 1

\* initial cutoffs, squared, in half units: 0.5, 2.5 and 4.0
CutoffsSq == {1, 25, 64}

\* the defaults of dgl_multigraph: cutoff = 8 (16 half units, squared) and
\* max_neighbors = 12
DefaultCutoffSq == 256

DefaultMaxNeighbors == 12

(* ---------------- the construction as pure functions ----------------- *)

RECURSIVE BuildEdges(_, _, _, _)
\* for site_idx, neighborlist in enumerate(all_neighbors): ...  from site_idx on
BuildEdges(edges, all, site_idx, max_neighbors) ==
    IF site_idx \notin DOMAIN all THEN edges
    ELSE With(KeptNeighbors(all[site_idx], max_neighbors),
              LAMBDA nbrs :
                  With(InsertNeighbors(edges, site_idx, nbrs),
                       LAMBDA added :
                           BuildEdges(added, all, site_idx + 1, max_neighbors)))

RECURSIVE NearestNeighborEdgesFrom(_, _, _, _)
\* nearest_neighbor_edges at recursion depth `depth`
NearestNeighborEdgesFrom(s, c2, max_neighbors, depth) ==
    With(get_all_neighbors(s, c2),
         LAMBDA all :
             IF TooFewNeighbors(all, max_neighbors)
             THEN IF depth < MaxRetries
                  THEN NearestNeighborEdgesFrom(s, RCut(s, c2), max_neighbors, depth + 1)
                  ELSE <<>>
             ELSE BuildEdges(<<>>, all, 0, max_neighbors))

\* nearest_neighbor_edges(structure, cutoff, max_neighbors)
nearest_neighbor_edges(s, c2, max_neighbors) ==
    NearestNeighborEdgesFrom(s, c2, max_neighbors, 0)

\* the second edge carries d instead of -d
EdgePairSameVector(s, src_id, dst_id, dst_image) ==
    With(VAdd(FracCoords(s, dst_id), VScale(s.den, dst_image)),
         LAMBDA dst_coord :
             With(get_cartesian_coords(s.matrix, VSub(dst_coord, FracCoords(s, src_id))),
                  LAMBDA d : <<<<src_id, dst_id, d>>, <<dst_id, src_id, d>>>>))

\* the two directed edges of one (key, image): (src, dst, d) and (dst, src, -d)
EdgePair(s, src_id, dst_id, dst_image) ==
    With(VAdd(FracCoords(s, dst_id), VScale(s.den, dst_image)),
         LAMBDA dst_coord :
             With(get_cartesian_coords(s.matrix, VSub(dst_coord, FracCoords(s, src_id))),
                  LAMBDA d : <<<<src_id, dst_id, d>>, <<dst_id, src_id, VNeg(d)>>>>))

\* for dst_image in images: ...  (the set is walked in some fixed order):
\* entries 2j - 1 and 2j of the result are the edge pair of the j-th image
EmitImages(s, key, images) ==
    [n \in 1 .. 2 * Len(images) |->
        EdgePair(s, key[1], key[2], images[(n + 1) \div 2])[2 - (n % 2)]]

\* the directed edges one entry of the mapping contributes
EmitKey(s, entry) ==
    With(SeqOfSet(entry.images), LAMBDA images : EmitImages(s, entry.key, images))

RECURSIVE build_undirected_edgedata(_, _)
\* build_undirected_edgedata(structure, edges): the (u, v, r) triples in order
build_undirected_edgedata(s, edges) ==
    IF edges = <<>> THEN <<>>
    ELSE With(EmitKey(s, Head(edges)),
              LAMBDA emitted : emitted \o build_undirected_edgedata(s, Tail(edges)))

(* --------------------------- dgl_multigraph --------------------------- *)

VARIABLES
    call,           \* the arguments of dgl_multigraph
    pc,             \* where the call is
    cutoff_sq,      \* cutoff of the current nearest_neighbor_edges frame, squared
    depth,          \* recursion depth of nearest_neighbor_edges
    all_neighbors,  \* structure.get_all_neighbors(cutoff) of the current frame
    vor_mode,       \* how voronoi_edges obtained its neighbour info
    site_idx,       \* loop index over sites
    kept,           \* per site, the neighbours handed to canonize_edge
    edges,          \* the (src_id, dst_id) -> set of dst_image mapping
    key_idx,        \* loop index of build_undirected_edgedata
    u, v, r,        \* the three lists of build_undirected_edgedata
    node_features,  \* the atom attribute rows
    error,          \* the exception that ended the call, if any
    n_search,       \* neighbour searches executed
    n_canon,        \* canonize_edge calls executed
    canon           \* a canonize_edge call on its own

vars == <<call, pc, cutoff_sq, depth, all_neighbors, vor_mode, site_idx, kept, edges,
          key_idx, u, v, r, node_features, error, n_search, n_canon, canon>>

\* feature_sets of _get_node_attributes
feature_sets == {"atomic_number", "basic", "cfid", "mit"}

NeighborStrategies == {"k-nearest", "voronoi"}

\* arguments tried: known and unknown strategies and feature schemes; cutoff
\* and max_neighbors are varied where they are used (the k-nearest strategy)
Calls ==
    {c \in [structure : Structures,
            neighbor_strategy : NeighborStrategies \cup {"radius"},
            cutoff_sq : CutoffsSq \cup {DefaultCutoffSq},
            max_neighbors : (1 .. MaxK) \cup {DefaultMaxNeighbors},
            atom_features : {"atomic_number", "one_hot"}] :
        IF c.neighbor_strategy = "k-nearest"
        THEN c.cutoff_sq \in CutoffsSq /\ c.max_neighbors \in 1 .. MaxK
        ELSE c.cutoff_sq = DefaultCutoffSq /\ c.max_neighbors = DefaultMaxNeighbors}

NoCanon == [pc |-> "idle"]

Idle ==
    /\ cutoff_sq = 0
    /\ depth = 0
    /\ all_neighbors = <<>>
    /\ vor_mode = "none"
    /\ site_idx = 0
    /\ kept = <<>>
    /\ edges = <<>>
    /\ key_idx = 0
    /\ u = <<>> /\ v = <<>> /\ r = <<>>
    /\ node_features = <<>>
    /\ error = "none"
    /\ n_search = 0
    /\ n_canon = 0

Init ==
    /\ call \in Calls
    /\ pc = "start"
    /\ Idle
    /\ canon = NoCanon

\* lines 285-292: the strategy switch.  An unknown strategy takes neither
\* branch, and line 294 then reads the unbound local `edges`
Dispatch ==
    /\ pc = "start"
    /\ IF call.neighbor_strategy = "k-nearest"
       THEN /\ pc' = "nn_query"
            /\ cutoff_sq' = call.cutoff_sq
            /\ error' = error
       ELSE IF call.neighbor_strategy = "voronoi"
       THEN /\ pc' = "voronoi"
            /\ UNCHANGED <<cutoff_sq, error>>
       ELSE /\ pc' = "error"
            /\ error' = "UnboundLocalError"
            /\ UNCHANGED cutoff_sq
    /\ UNCHANGED <<call, depth, all_neighbors, vor_mode, site_idx, kept, edges, key_idx,
                   u, v, r, node_features, n_search, n_canon, canon>>

\* line 178: all_neighbors = structure.get_all_neighbors(cutoff)
NNQuery ==
    /\ pc = "nn_query"
    /\ all_neighbors' = get_all_neighbors(call.structure, cutoff_sq)
    /\ n_search' = n_search + 1
    /\ pc' = "nn_check"
    /\ UNCHANGED <<call, cutoff_sq, depth, vor_mode, site_idx, kept, edges, key_idx,
                   u, v, r, node_features, error, n_canon, canon>>

\* lines 181-194: too few neighbours at some site: recurse with a larger cutoff
NNExtend ==
    /\ pc = "nn_check"
    /\ TooFewNeighbors(all_neighbors, call.max_neighbors)
    /\ depth < MaxRetries
    /\ cutoff_sq' = RCut(call.structure, cutoff_sq)
    /\ depth' = depth + 1
    /\ all_neighbors' = <<>>
    /\ pc' = "nn_query"
    /\ UNCHANGED <<call, vor_mode, site_idx, kept, edges, key_idx, u, v, r,
                   node_features, error, n_search, n_canon, canon>>

\* lines 182, 208: enough neighbours everywhere: edges = defaultdict(set)
NNBegin ==
    /\ pc = "nn_check"
    /\ ~TooFewNeighbors(all_neighbors, call.max_neighbors)
    /\ edges' = <<>>
    /\ site_idx' = 0
    /\ kept' = <<>>
    /\ pc' = "nn_site"
    /\ UNCHANGED <<call, cutoff_sq, depth, all_neighbors, vor_mode, key_idx, u, v, r,
                   node_features, error, n_search, n_canon, canon>>

\* lines 209-232: one iteration of the loop over sites
NNSite ==
    /\ pc = "nn_site"
    /\ site_idx < NumSites(call.structure)
    /\ \E nbrs \in {KeptNeighbors(all_neighbors[site_idx], call.max_neighbors)} :
           \E failing \in {{p \in 1 .. Len(nbrs) :
                               ~AssertHolds(canonize_edge(site_idx, nbrs[p].index,
                                                          Zero3, nbrs[p].image))}} :
               /\ kept' = Append(kept, nbrs)
               /\ IF failing = {}
                  THEN /\ edges' = InsertNeighbors(edges, site_idx, nbrs)
                       /\ n_canon' = n_canon + Len(nbrs)
                       /\ site_idx' = site_idx + 1
                       /\ UNCHANGED <<pc, error>>
                  ELSE /\ pc' = "error"
                       /\ error' = "AssertionError"
                       /\ n_canon' = n_canon + SetMin(failing)
                       /\ UNCHANGED <<edges, site_idx>>
    /\ UNCHANGED <<call, cutoff_sq, depth, all_neighbors, vor_mode, key_idx, u, v, r,
                   node_features, n_search, canon>>

\* line 234: return edges (to line 286)
NNReturn ==
    /\ pc = "nn_site"
    /\ site_idx = NumSites(call.structure)
    /\ pc' = "edges_ready"
    /\ UNCHANGED <<call, cutoff_sq, depth, all_neighbors, vor_mode, site_idx, kept, edges,
                   key_idx, u, v, r, node_features, error, n_search, n_canon, canon>>

(* ---------------------------- voronoi_edges --------------------------- *)

\* periodic images the Voronoi neighbour info is drawn from
VorImages == {Zero3, <<1, 0, 0>>}

\* what VoronoiNN may report for site src: any single neighbour (site index
\* and image) or all of them, never the site's own home image
VoronoiNNInfo(s, src) ==
    LET cands == {[index |-> j, image |-> n] : j \in SiteIds(s), n \in VorImages}
                     \ {[index |-> src, image |-> Zero3]}
    IN {{c} : c \in cands} \cup {cands}

\* lines 246-247: vnn.get_all_nn_info(structure) succeeds
VoronoiBulk ==
    /\ pc = "voronoi"
    /\ vor_mode' = "bulk"
    /\ n_search' = n_search + 1
    /\ edges' = <<>>
    /\ site_idx' = 0
    /\ pc' = "vor_site"
    /\ UNCHANGED <<call, cutoff_sq, depth, all_neighbors, kept, key_idx, u, v, r,
                   node_features, error, n_canon, canon>>

\* lines 248-253: ValueError from the bulk computation: go site by site
VoronoiPerSite ==
    /\ pc = "voronoi"
    /\ vor_mode' = "per_site"
    /\ n_search' = n_search + 1 + NumSites(call.structure)
    /\ edges' = <<>>
    /\ site_idx' = 0
    /\ pc' = "vor_site"
    /\ UNCHANGED <<call, cutoff_sq, depth, all_neighbors, kept, key_idx, u, v, r,
                   node_features, error, n_canon, canon>>

\* lines 256-266: one iteration of the loop over sites
VoronoiSite ==
    /\ pc = "vor_site"
    /\ site_idx < NumSites(call.structure)
    /\ \E edge_data \in VoronoiNNInfo(call.structure, site_idx) :
           \E nbrs \in {SeqByKey({<<<<c.index, c.image[1], c.image[2], c.image[3]>>, c>> :
                                     c \in edge_data})} :
               /\ kept' = Append(kept, nbrs)
               /\ edges' = InsertNeighbors(edges, site_idx, nbrs)
               /\ n_canon' = n_canon + Len(nbrs)
    /\ site_idx' = site_idx + 1
    /\ UNCHANGED <<call, pc, cutoff_sq, depth, all_neighbors, vor_mode, key_idx, u, v, r,
                   node_features, error, n_search, canon>>

\* line 268: return edges (to line 292)
VoronoiReturn ==
    /\ pc = "vor_site"
    /\ site_idx = NumSites(call.structure)
    /\ pc' = "edges_ready"
    /\ UNCHANGED <<call, cutoff_sq, depth, all_neighbors, vor_mode, site_idx, kept, edges,
                   key_idx, u, v, r, node_features, error, n_search, n_canon, canon>>

(* ---------------------- build_undirected_edgedata -------------------- *)

\* lines 294, 148: the call; u, v, r = [], [], []
BuildStart ==
    /\ pc = "edges_ready"
    /\ u' = <<>> /\ v' = <<>> /\ r' = <<>>
    /\ key_idx' = 1
    /\ pc' = "build"
    /\ UNCHANGED <<call, cutoff_sq, depth, all_neighbors, vor_mode, site_idx, kept, edges,
                   node_features, error, n_search, n_canon, canon>>

\* lines 149-162: one iteration of the loop over edges.items()
BuildKey ==
    /\ pc = "build"
    /\ key_idx <= Len(edges)
    /\ LET out == EmitKey(call.structure, edges[key_idx])
       IN /\ u' = u \o [p \in 1 .. Len(out) |-> out[p][1]]
          /\ v' = v \o [p \in 1 .. Len(out) |-> out[p][2]]
          /\ r' = r \o [p \in 1 .. Len(out) |-> out[p][3]]
    /\ key_idx' = key_idx + 1
    /\ UNCHANGED <<call, pc, cutoff_sq, depth, all_neighbors, vor_mode, site_idx, kept,
                   edges, node_features, error, n_search, n_canon, canon>>

\* lines 164-168: return u, v, r
BuildReturn ==
    /\ pc = "build"
    /\ key_idx > Len(edges)
    /\ pc' = "features"
    /\ UNCHANGED <<call, cutoff_sq, depth, all_neighbors, vor_mode, site_idx, kept, edges,
                   key_idx, u, v, r, node_features, error, n_search, n_canon, canon>>

(* ------------------------- node features, graph ---------------------- *)

\* _get_node_attributes: the feature row of a species (kept symbolic), or
\* NotImplementedError for an unknown scheme
get_node_attributes(species, atom_features) ==
    IF atom_features \notin feature_sets THEN "NotImplementedError"
    ELSE <<atom_features, species>>

\* lines 297-300 when the first _get_node_attributes call raises
NodeFeaturesFail ==
    /\ pc = "features"
    /\ get_node_attributes(call.structure.species[1], call.atom_features)
           = "NotImplementedError"
    /\ pc' = "error"
    /\ error' = "NotImplementedError"
    /\ UNCHANGED <<call, cutoff_sq, depth, all_neighbors, vor_mode, site_idx, kept, edges,
                   key_idx, u, v, r, node_features, n_search, n_canon, canon>>

\* lines 297-306: the feature rows and the graph
Assemble ==
    /\ pc = "features"
    /\ get_node_attributes(call.structure.species[1], call.atom_features)
           # "NotImplementedError"
    /\ node_features' = [i \in 1 .. NumSites(call.structure) |->
                            get_node_attributes(call.structure.species[i],
                                                call.atom_features)]
    /\ pc' = "done"
    /\ UNCHANGED <<call, cutoff_sq, depth, all_neighbors, vor_mode, site_idx, kept, edges,
                   key_idx, u, v, r, error, n_search, n_canon, canon>>

Next ==
    \/ Dispatch
    \/ NNQuery
    \/ NNExtend
    \/ NNBegin
    \/ NNSite
    \/ NNReturn
    \/ VoronoiBulk
    \/ VoronoiPerSite
    \/ VoronoiSite
    \/ VoronoiReturn
    \/ BuildStart
    \/ BuildKey
    \/ BuildReturn
    \/ NodeFeaturesFail
    \/ Assemble

Spec == Init /\ [][Next]_vars

\* the call is one sequential computation: it keeps running until it returns
\* or raises
FairSpec ==
    /\ Init
    /\ [][Next]_vars
    /\ WF_vars(NNQuery) /\ WF_vars(NNExtend) /\ WF_vars(NNBegin)
    /\ WF_vars(NNSite) /\ WF_vars(NNReturn)

(* ----------------------- canonize_edge on its own -------------------- *)

CanonImages == ((0 - MaxImage) .. MaxImage) \X ((0 - MaxImage) .. MaxImage)
                   \X ((0 - MaxImage) .. MaxImage)

CanonInit ==
    /\ call = <<>>
    /\ pc = "idle"
    /\ Idle
    /\ \E a \in 0 .. MaxSiteId, b \in 0 .. MaxSiteId, ia \in CanonImages,
          ib \in CanonImages :
           canon = [pc |-> "call", args |-> <<a, b, ia, ib>>,
                    e |-> [src_id |-> a, dst_id |-> b, src_image |-> ia,
                           dst_image |-> ib]]

\* lines 123-125
CanonSort ==
    /\ canon.pc = "call"
    /\ canon' = [canon EXCEPT !.pc = "sorted", !.e = SortIds(canon.e)]
    /\ UNCHANGED <<call, pc, cutoff_sq, depth, all_neighbors, vor_mode, site_idx, kept,
                   edges, key_idx, u, v, r, node_features, error, n_search, n_canon>>

\* lines 128-131
CanonShift ==
    /\ canon.pc = "sorted"
    /\ canon' = [canon EXCEPT !.pc = "shifted", !.e = ShiftImages(canon.e)]
    /\ UNCHANGED <<call, pc, cutoff_sq, depth, all_neighbors, vor_mode, site_idx, kept,
                   edges, key_idx, u, v, r, node_features, error, n_search, n_canon>>

\* lines 133-135: the assertion, then the return
CanonAssert ==
    /\ canon.pc = "shifted"
    /\ canon' = [canon EXCEPT
                     !.pc = IF AssertHolds(canon.e) THEN "returned" ELSE "AssertionError"]
    /\ UNCHANGED <<call, pc, cutoff_sq, depth, all_neighbors, vor_mode, site_idx, kept,
                   edges, key_idx, u, v, r, node_features, error, n_search, n_canon>>

CanonNext == CanonSort \/ CanonShift \/ CanonAssert

CanonSpec == CanonInit /\ [][CanonNext]_vars

(* ------------------------------ claims -------------------------------- *)

KNearest == pc # "idle" /\ call.neighbor_strategy = "k-nearest"

\* build_undirected_edgedata has returned
Built == pc \in {"features", "done"} \/ (pc = "error" /\ error = "NotImplementedError")

\* C1: canonize_edge never fails its assertion, and what it returns has
\* src_id <= dst_id and src_image = (0,0,0), whatever the ids and images.
C1_CanonicalForm ==
    /\ canon.pc # "AssertionError"
    /\ canon.pc = "returned" =>
           /\ canon.e.src_id <= canon.e.dst_id
           /\ canon.e.src_image = Zero3

\* a call that had to swap the ids and to shift a non-zero image has returned
C1_Witness ==
    /\ canon.pc = "returned"
    /\ canon.args[2] < canon.args[1]
    /\ canon.args[4] # Zero3

\* C2: canonize_edge(a, b, ia, ib) and canonize_edge(b, a, ib, ia) return the
\* same (src_id, dst_id) and the same dst_image, for all a, b (a = b included).
C2_SymmetricUnderReversal ==
    canon.pc = "returned" =>
        LET rev == canonize_edge(canon.args[2], canon.args[1], canon.args[4],
                                 canon.args[3])
        IN /\ rev.src_id = canon.e.src_id
           /\ rev.dst_id = canon.e.dst_id
           /\ rev.dst_image = canon.e.dst_image

\* the cartesian displacement of a (key, image) entry of the mapping
Displacement(s, entry) ==
    get_cartesian_coords(
        s.matrix,
        VSub(VAdd(FracCoords(s, entry[1][2]), VScale(s.den, entry[2])),
             FracCoords(s, entry[1][1])))

\* C3: once build_undirected_edgedata has returned, the lists hold exactly two
\* edges per (key, image) entry of the mapping, (src, dst, d) followed by
\* (dst, src, -d) with d the cartesian image of frac(dst) + image - frac(src);
\* so there are 2 * (number of images over all keys) edges, and every edge has
\* a partner with swapped endpoints and negated displacement.
C3_TwoEdgesPerImage ==
    Built =>
        LET E == EdgeSet(edges)
            n == Cardinality(E)
        IN /\ Len(u) = 2 * n /\ Len(v) = 2 * n /\ Len(r) = 2 * n
           /\ \A e \in E :
                  \E j \in 1 .. n :
                      /\ u[2 * j - 1] = e[1][1] /\ v[2 * j - 1] = e[1][2]
                      /\ r[2 * j - 1] = Displacement(call.structure, e)
                      /\ u[2 * j] = e[1][2] /\ v[2 * j] = e[1][1]
                      /\ r[2 * j] = VNeg(Displacement(call.structure, e))
           /\ \A i \in 1 .. Len(u) :
                  \E j \in 1 .. Len(u) :
                      u[j] = v[i] /\ v[j] = u[i] /\ r[j] = VNeg(r[i])

\* the lists have been built from a mapping with several keys, one of them
\* holding several images
C3_Witness ==
    /\ pc = "features"
    /\ Len(edges) >= 2
    /\ \E p \in 1 .. Len(edges) : Cardinality(edges[p].images) >= 2

\* simple cubic, edge 2.0, one site, cutoff 2.5, max_neighbors 6
CubicScenario ==
    /\ KNearest
    /\ call.structure = SimpleCubic
    /\ call.cutoff_sq = 25
    /\ call.max_neighbors = 6

SixImages ==
    {<<1, 0, 0>>, <<-1, 0, 0>>, <<0, 1, 0>>, <<0, -1, 0>>, <<0, 0, 1>>, <<0, 0, -1>>}

\* C4: in the cubic scenario the cutoff is never extended, the mapping
\* returned is the single key (0,0) with the six images +-x, +-y, +-z, and
\* the lists built from it hold 12 edges: six pairs of opposite vectors of
\* length 2.0, one pair per image.
C4_CubicScenario ==
    CubicScenario =>
        /\ depth = 0
        /\ cutoff_sq \in {0, 25}
        /\ pc \in {"edges_ready", "build", "features", "done", "error"} =>
               edges = <<[key |-> <<0, 0>>, images |-> SixImages]>>
        /\ Built =>
               /\ Len(u) = 12 /\ Len(v) = 12 /\ Len(r) = 12
               /\ \A p \in 1 .. 12 : u[p] = 0 /\ v[p] = 0
               /\ \A j \in 1 .. 6 : r[2 * j] = VNeg(r[2 * j - 1])
               /\ {r[2 * j - 1] : j \in 1 .. 6}
                      = {VScale(4 * call.structure.den, n) : n \in SixImages}

\* the cubic scenario has run to the end
C4_Witness == CubicScenario /\ pc = "done" /\ Len(u) = 12

\* C5: the adaptive cutoff retry terminates: from every neighbour query of
\* nearest_neighbor_edges an attempt is eventually reached in which every site
\* has at least max_neighbors candidates, and the edge set is returned.
C5_RetryTerminates ==
    [](pc = "nn_query" =>
           <>(/\ pc = "edges_ready"
              /\ KNearest
              /\ \A i \in SiteIds(call.structure) :
                     Cardinality(all_neighbors[i]) >= call.max_neighbors))

\* an edge set has been returned after two retries
C5_Witness == KNearest /\ pc = "edges_ready" /\ depth = 2

InvalidConfiguration ==
    \/ call.neighbor_strategy \notin NeighborStrategies
    \/ call.atom_features \notin feature_sets

\* C6: with an unknown atom_features scheme or an unknown neighbor_strategy,
\* dgl_multigraph fails without any work done: no neighbour search, no
\* canonize_edge call and no edge emitted at any point of the call, and the
\* call never completes.
C6_FailsBeforeAnyWork ==
    (pc # "idle" /\ InvalidConfiguration) =>
        /\ n_search = 0
        /\ n_canon = 0
        /\ u = <<>> /\ v = <<>> /\ r = <<>>
        /\ pc \notin {"build", "features", "done"}

\* site i has no incident edge in the directed edge list g
Isolated(g, i) == \A p \in 1 .. Len(g) : g[p][1] # i /\ g[p][2] # i

C8_RetryPolicy ==
    [][KNearest =>
          /\ (pc = "nn_check"
                 /\ \E i \in SiteIds(call.structure) :
                        Cardinality(all_neighbors[i]) < call.max_neighbors) =>
                 /\ pc' = "nn_query"
                 /\ cutoff_sq' = IF cutoff_sq < MaxCellSq(call.structure)
                                 THEN MaxCellSq(call.structure)
                                 ELSE 4 * cutoff_sq
                 /\ edges = <<>> /\ edges' = <<>>
                 /\ n_canon = 0 /\ n_canon' = 0
          /\ pc = "nn_query" =>
                 /\ edges' = <<>>
                 /\ \A i \in SiteIds(call.structure) :
                        \A x \in all_neighbors'[i] :
                            x.nn_distance2 <= cutoff_sq * call.structure.den
                                                  * call.structure.den
          /\ edges' # <<>> =>
                 \A i \in SiteIds(call.structure) :
                     Cardinality(all_neighbors'[i]) >= call.max_neighbors]_vars

\* edges are being built after the cutoff was first set to the cell size and
\* then doubled
C8_Witness ==
    /\ KNearest /\ pc = "nn_site" /\ edges # <<>>
    /\ call.cutoff_sq < MaxCellSq(call.structure)
    /\ cutoff_sq = 4 * MaxCellSq(call.structure)

\* the distance of the k-th closest candidate of a neighbour list
KthDistance(cands, k) ==
    CHOOSE d \in {x.nn_distance2 : x \in cands} :
        /\ Cardinality({x \in cands : x.nn_distance2 < d}) < k
        /\ Cardinality({x \in cands : x.nn_distance2 <= d}) >= k

\* C9: for every site processed, the neighbours inserted are exactly the
\* candidates at distance <= max_dist, the distance of the max_neighbors-th
\* closest candidate: each once, at least max_neighbors of them, more than
\* max_neighbors exactly when further candidates tie at max_dist; each is in
\* the edge set in canonical form.
C9_WholeShellKept ==
    (KNearest /\ pc \in {"nn_site", "edges_ready"}) =>
        \A i \in 1 .. Len(kept) :
            LET cands == all_neighbors[i - 1]
                k == call.max_neighbors
                max_dist == KthDistance(cands, k)
                inserted == {kept[i][p] : p \in 1 .. Len(kept[i])}
            IN /\ inserted = {x \in cands : x.nn_distance2 <= max_dist}
               /\ Len(kept[i]) = Cardinality(inserted)
               /\ Len(kept[i]) >= k
               /\ Len(kept[i]) > k <=>
                      Cardinality({x \in cands : x.nn_distance2 = max_dist})
                          > k - Cardinality({x \in cands : x.nn_distance2 < max_dist})
               /\ \A x \in inserted :
                      LET e == canonize_edge(i - 1, x.index, Zero3, x.image)
                      IN <<<<e.src_id, e.dst_id>>, e.dst_image>> \in EdgeSet(edges)

\* every site is done; for one of them ties at max_dist made the shell
\* larger than max_neighbors while farther candidates were dropped
C9_Witness ==
    /\ KNearest /\ pc = "edges_ready"
    /\ \E i \in 1 .. Len(kept) :
           /\ Len(kept[i]) > call.max_neighbors
           /\ Len(kept[i]) < Cardinality(all_neighbors[i - 1])

\* C10: the edge set nearest_neighbor_edges returns is, as a mapping from
\* keys to image sets, the one it returns for any other initial cutoff.
C10_CutoffIndependent ==
    (KNearest /\ pc = "edges_ready") =>
        \A c2 \in CutoffsSq :
            EdgeSet(nearest_neighbor_edges(call.structure, c2, call.max_neighbors))
                = EdgeSet(edges)

\* an edge set has been returned after a cutoff extension, while another
\* initial cutoff needs no extension
C10_Witness ==
    /\ KNearest /\ pc = "edges_ready" /\ depth >= 1 /\ edges # <<>>
    /\ \E c2 \in CutoffsSq :
           ~TooFewNeighbors(get_all_neighbors(call.structure, c2), call.max_neighbors)

====
